---- MODULE Spec2Model ----
(***************************************************************************)
(* Model of the request/response logging middleware of src/index.js:      *)
(* requestLogger, its completion callback onResponseFinished and the hook *)
(* runner updateFields, for one request travelling through the pipeline.  *)
(***************************************************************************)
EXTENDS Integers, Sequences, FiniteSets, TLC

\* ------------------------------------------------------------------------
\* Bounds

\* The wall clock (new Date().getTime()) takes the values 0..MaxTime.
MaxTime == 1

\* The handler chain calls ctx.time and ctx.timeEnd at most MaxTimerCalls
\* times during one request.
MaxTimerCalls == 4

\* ------------------------------------------------------------------------
\* JavaScript values

\* The value of a variable that was declared and never assigned (var err;),
\* and the result of a function that returns nothing.
Undefined == "undefined"

\* What the downstream handler chain can throw: two Error objects and the
\* number 0 (throw 0, or a promise rejected with 0).
ThrownValues == {"Error1", "Error2", "Zero"}

\* What a hook, levelFn or a formatter throws, and what a property access
\* on undefined or null throws.
HookError == "Error('clumsy')"
TypeError == "TypeError"

\* JavaScript truthiness, as used by if (err), if (!func) and a || b.
Truthy(v) == v \notin {Undefined, "Zero", "null", "false"}

\* ------------------------------------------------------------------------
\* Field maps (plain objects): functions from a finite set of field names

EmptyMap == [f \in {} |-> Undefined]

\* obj[f] = v
Put(m, f, v) == [x \in (DOMAIN m) \cup {f} |-> IF x = f THEN v ELSE m[x]]

\* every assignment of n applied to m
Assign(m, n) == [x \in (DOMAIN m) \cup (DOMAIN n) |-> IF x \in DOMAIN n THEN n[x] ELSE m[x]]

\* delete obj[f] for every f in S
Delete(m, S) == [x \in (DOMAIN m) \ S |-> m[x]]

Has(m, f) == f \in DOMAIN m

\* ------------------------------------------------------------------------
\* Hooks.  A hook is a user function; its model says what a call does:
\*   present    the option is set at all
\*   sets       the fields it assigns in place
\*   setsOnErr  the fields it assigns in place when it is passed a truthy
\*              second argument (if (err) { fields.error_handled = true })
\*   dels       the fields it deletes in place
\*   throws     it throws after its in-place changes
\*   ret        what it returns: Undefined, "null" or "object"
\*   retObj     the object it returns when ret = "object"

NoHook ==
  [present |-> FALSE, sets |-> EmptyMap, setsOnErr |-> EmptyMap, dels |-> {},
   throws |-> FALSE, ret |-> Undefined, retObj |-> EmptyMap]

\* updateLogFields of the test 'allows adding fields to request/response log data'
GlobalHook ==
  [present |-> TRUE,
   sets |-> [foo |-> "bar", baz1 |-> "fizz", baz2 |-> "fuzz"],
   setsOnErr |-> EmptyMap, dels |-> {},
   throws |-> FALSE, ret |-> Undefined, retObj |-> EmptyMap]

\* updateRequestLogFields of the same test
RequestHook ==
  [present |-> TRUE,
   sets |-> [addedToReq |-> "hello"],
   setsOnErr |-> EmptyMap, dels |-> {"baz1"},
   throws |-> FALSE, ret |-> Undefined, retObj |-> EmptyMap]

\* updateResponseLogFields of the same test
ResponseHook ==
  [present |-> TRUE,
   sets |-> [addedToRes |-> "world"],
   setsOnErr |-> [error_handled |-> "true"], dels |-> {"baz2"},
   throws |-> FALSE, ret |-> Undefined, retObj |-> EmptyMap]

\* the hook of the test 'logs errors in update methods and then continues',
\* here changing the map before it throws
ClumsyHook ==
  [present |-> TRUE,
   sets |-> [clumsy |-> "yes"],
   setsOnErr |-> EmptyMap, dels |-> {"req"},
   throws |-> TRUE, ret |-> Undefined, retObj |-> EmptyMap]

\* the hook of the test 'allows returning custom log fields': returns a new
\* object, leaving the one it was given alone
ReplacingHook ==
  [present |-> TRUE,
   sets |-> EmptyMap, setsOnErr |-> EmptyMap, dels |-> {},
   throws |-> FALSE, ret |-> "object", retObj |-> [request_trace |-> "custom"]]

\* a hook that changes the map in place and returns null
NullHook ==
  [present |-> TRUE,
   sets |-> [foo |-> "nullhook"], setsOnErr |-> EmptyMap, dels |-> {"baz2"},
   throws |-> FALSE, ret |-> "null", retObj |-> EmptyMap]

\* HookMutate with the hook's assignments lost
HookMutate_NoSets(h, data, nargs) ==
  Delete(data, h.dels)

\* the object a hook call leaves behind in place of data, called with nargs
\* arguments
HookMutate(h, data, nargs) ==
  Delete(Assign(Assign(data, h.sets), IF nargs = 2 THEN h.setsOnErr ELSE EmptyMap), h.dels)

\* HookResult merging a returned object into data instead of replacing it
HookResult_Merge(h, data, nargs) ==
  IF h.ret = "object"
  THEN Assign(HookMutate(h, data, nargs), h.retObj)
  ELSE HookMutate(h, data, nargs)

\* func.call(ctx, data[, err]) || data, for a call that returns: an object
\* is truthy (an empty one too), undefined and null are not
HookResult(h, data, nargs) ==
  IF h.ret = "object" THEN h.retObj ELSE HookMutate(h, data, nargs)

\* ------------------------------------------------------------------------
\* Options of requestLogger(opts), fixed when the middleware is created

GlobalHooks == {NoHook, GlobalHook, ClumsyHook, ReplacingHook}
RequestHooks == {NoHook, RequestHook, ClumsyHook, NullHook}
ResponseHooks == {NoHook, ResponseHook, ClumsyHook, ReplacingHook}

\* levelFn: the default, a user function of (ctx, err), or one that throws
LevelFns == {"default", "custom", "throws"}

\* formatRequestMessage / formatResponseMessage: the default or one that throws
Formatters == {"default", "throws"}

Options ==
  [updateLogFields : GlobalHooks,
   updateRequestLogFields : RequestHooks,
   updateResponseLogFields : ResponseHooks,
   levelFn : LevelFns,
   formatRequestMessage : Formatters,
   formatResponseMessage : Formatters]

durationField == "duration"

\* The this value requestLogger is invoked with: the pipeline calls
\* fn(context, next), which in strict mode leaves this undefined; a caller
\* may also bind the context.
ThisValues == {Undefined, "ctx"}

\* ctx.status values the handler chain sets
Statuses == {200, 400, 500}

\* ------------------------------------------------------------------------
\* State

VARIABLES
  opts,          \* the options object
  thisArg,       \* this inside requestLogger
  pc,            \* position of requestLogger: "init", "awaiting", "settled", "done"
  nextResult,    \* next(): [state: "pending" | "returned" | "threw", value]
  err,           \* var err of requestLogger
  startTime,     \* var startTime of requestLogger
  now,           \* new Date().getTime()
  status,        \* ctx.status
  statusSet,     \* the handler chain has assigned ctx.status
  finished,      \* the transport has signalled that the response is finished
  registered,    \* onFinished(ctx.response.res, callback) has been called
  alreadyFinished, \* the response was finished when the callback was registered
  cb,            \* the completion callback: "none", "done" or "aborted" (it threw)
  ctxLog,        \* ctx.log: "logger" or "null"
  log,           \* the records emitted through ctx.log, in order
  caller,        \* what the caller of requestLogger observes: [outcome, value]
  errorHandled,  \* the pipeline's default error handler has seen the rejection
  calls,         \* the invocations of updateFields, in order
  levelArg,      \* the err argument levelFn was called with
  timeOpts,      \* the options object of timeContext(opts)
  timeCtx,       \* timeContext has installed ctx.time and ctx.timeEnd
  startTimes,    \* ctx._timeContextStartTimes
  timerCalls,    \* the calls of ctx.time and ctx.timeEnd, in order
  reqs,          \* concurrent requests: the state of each one's invocation
  stream         \* the output stream the loggers of all requests share

vars ==
  <<opts, thisArg, pc, nextResult, err, startTime, now, status, statusSet,
    finished, registered, alreadyFinished, cb, ctxLog, log, caller,
    errorHandled, calls, levelArg, timeOpts, timeCtx, startTimes, timerCalls,
    reqs, stream>>

\* the state of the timer context
timerVars == <<timeOpts, timeCtx, startTimes, timerCalls>>

\* the state of the requests handled side by side
concVars == <<reqs, stream>>

NotCalled == "not called"

\* ------------------------------------------------------------------------
\* Log records

\* ctx.log.error(e) of updateFields
ErrorRecord(e) ==
  [kind |-> "hookError", level |-> "error", fields |-> [err |-> e],
   msg |-> [fmt |-> "%s", args |-> <<e>>]]

\* the default formatRequestMessage
formatRequestMessage(data) ==
  [fmt |-> "  <-- %s %s", args |-> <<"GET", "/">>]

\* the default formatResponseMessage
formatResponseMessage(st, data) ==
  [fmt |-> "  --> %s %s %d %sms",
   args |-> <<"GET", "/", st,
              IF Has(data, durationField) THEN data[durationField] ELSE Undefined>>]

\* the default levelFn
levelFn(st) ==
  IF st >= 500 THEN "error"
  ELSE IF st >= 400 THEN "warn"
  ELSE "info"

\* a user-supplied levelFn(ctx, err)
customLevelFn(e) == IF Truthy(e) THEN "fatal" ELSE "debug"

\* ------------------------------------------------------------------------
\* updateFields(ctx, func, data, err): what it returns (data), the records
\* it emits, the exception that leaves it (exc) and the number of
\* arguments it called func with (0: not called).  ctx is Undefined or
\* "ctx"; logger is ctx.log at the time of the call.

updateFields(ctx, logger, func, data, e) ==
  IF ~func.present
  THEN [data |-> data, emitted |-> <<>>, exc |-> Undefined, nargs |-> 0]
  ELSE LET nargs == IF Truthy(e) THEN 2 ELSE 1 IN
       IF func.throws
       THEN \* catch (e) { ctx.log.error(e); return data; }
            IF ctx = Undefined \/ logger = "null"
            THEN [data |-> HookMutate(func, data, nargs), emitted |-> <<>>,
                  exc |-> TypeError, nargs |-> nargs]
            ELSE [data |-> HookMutate(func, data, nargs),
                  emitted |-> <<ErrorRecord(HookError)>>,
                  exc |-> Undefined, nargs |-> nargs]
       ELSE [data |-> HookResult(func, data, nargs), emitted |-> <<>>,
             exc |-> Undefined, nargs |-> nargs]

\* one entry of calls
Call(name, func, data, e, u) ==
  [hook |-> name, func |-> func, data |-> data, err |-> e,
   nargs |-> u.nargs, result |-> u.data, exc |-> u.exc]

\* ------------------------------------------------------------------------
\* timeContext(opts): options and the values of its start-time object

\* the values a property of ctx._timeContextStartTimes can have: a
\* timestamp, null, a function inherited from Object.prototype, undefined;
\* and NaN, the result of subtracting something that is no number
Num(n) == [type |-> "number", v |-> n]
Null == [type |-> "null", v |-> 0]
Function == [type |-> "function", v |-> 0]
Undef == [type |-> "undefined", v |-> 0]
NaN == [type |-> "NaN", v |-> 0]

\* truthiness of such a value: if (startTimes[label]), if (!startTime)
TruthyValue(x) == x.type = "function" \/ (x.type = "number" /\ x.v # 0)

\* new Date().getTime() - startTime
Minus(t, x) == IF x.type = "number" THEN Num(t - x.v) ELSE NaN

\* the labels handlers pass: two ordinary ones and the name of a method
\* every plain object inherits
Labels == {"foo", "bar", "toString"}
ObjectPrototype == {"toString"}

\* startTimes[label] on the plain object {}: own property, else inherited
Get(map, label) ==
  IF label \in DOMAIN map THEN map[label]
  ELSE IF label \in ObjectPrototype THEN Function
  ELSE Undef

\* timeContext(opts): logLevel (Undefined: the default 'trace'), the
\* enrichment hook, and whether that hook calls this.time(fields.label)
DefaultTimeOptions ==
  [logLevel |-> Undefined, updateLogFields |-> NoHook, hookCallsTime |-> FALSE]

TimeOptions ==
  {DefaultTimeOptions,
   [logLevel |-> "debug", updateLogFields |-> ReplacingHook, hookCallsTime |-> FALSE],
   [logLevel |-> Undefined, updateLogFields |-> ClumsyHook, hookCallsTime |-> FALSE],
   [logLevel |-> Undefined, updateLogFields |-> GlobalHook, hookCallsTime |-> TRUE]}

\* var logLevel = opts.logLevel || 'trace'
logLevel == IF Truthy(timeOpts.logLevel) THEN timeOpts.logLevel ELSE "trace"

\* ------------------------------------------------------------------------
\* Initial state: the middleware has been created with some options, the
\* logger middleware has attached ctx.log, the pipeline has set the default
\* status 404 and has not yet invoked requestLogger.

Init ==
  /\ opts \in Options
  /\ thisArg \in ThisValues
  /\ pc = "init"
  /\ nextResult = [state |-> "pending", value |-> Undefined]
  /\ err = Undefined
  /\ startTime = 0
  /\ now = 0
  /\ status = 404
  /\ statusSet = FALSE
  /\ finished = FALSE
  /\ registered = FALSE
  /\ alreadyFinished = FALSE
  /\ cb = "none"
  /\ ctxLog = "logger"
  /\ log = <<>>
  /\ caller = [outcome |-> "pending", value |-> Undefined]
  /\ errorHandled = FALSE
  /\ calls = <<>>
  /\ levelArg = NotCalled
  /\ timeOpts = DefaultTimeOptions
  /\ timeCtx = FALSE
  /\ startTimes = EmptyMap
  /\ timerCalls = <<>>
  /\ reqs = <<>>
  /\ stream = <<>>

\* ------------------------------------------------------------------------
\* requestLogger, up to await next()

\* var requestData = { req: ctx.req }
RequestBase == [req |-> "ctx.req"]

\* the request phase: the two updateFields calls, the formatter and
\* ctx.log.info.  exc is the exception that ends requestLogger there.
RequestPhase ==
  LET u1 == updateFields(thisArg, ctxLog, opts.updateLogFields, RequestBase, Undefined)
      c1 == Call("updateLogFields", opts.updateLogFields, RequestBase, Undefined, u1)
      u2 == updateFields(thisArg, ctxLog, opts.updateRequestLogFields, u1.data, Undefined)
      c2 == Call("updateRequestLogFields", opts.updateRequestLogFields, u1.data, Undefined, u2)
  IN  IF u1.exc # Undefined
      THEN [exc |-> u1.exc, emitted |-> <<>>, calls |-> <<c1>>]
      ELSE IF u2.exc # Undefined
      THEN [exc |-> u2.exc, emitted |-> u1.emitted, calls |-> <<c1, c2>>]
      ELSE IF opts.formatRequestMessage = "throws"
      THEN [exc |-> HookError, emitted |-> u1.emitted \o u2.emitted, calls |-> <<c1, c2>>]
      ELSE [exc |-> Undefined,
            emitted |-> u1.emitted \o u2.emitted \o
                        <<[kind |-> "request", level |-> "info", fields |-> u2.data,
                           msg |-> formatRequestMessage(u2.data)]>>,
            calls |-> <<c1, c2>>]

requestLogger ==
  /\ pc = "init"
  /\ LET r == RequestPhase IN
       /\ log' = log \o r.emitted
       /\ calls' = calls \o r.calls
       /\ IF r.exc # Undefined
          THEN /\ pc' = "done"
               /\ caller' = [outcome |-> "rejected", value |-> r.exc]
               /\ UNCHANGED startTime
          ELSE /\ pc' = "awaiting"
               /\ startTime' = now
               /\ UNCHANGED caller
  /\ UNCHANGED <<opts, thisArg, nextResult, err, now, status, statusSet, finished,
                 registered, alreadyFinished, cb, ctxLog, errorHandled, levelArg>>
  /\ UNCHANGED timerVars
  /\ UNCHANGED concVars

\* ------------------------------------------------------------------------
\* The downstream handler chain, next()

\* a handler assigns ctx.status
SetStatus(s) ==
  /\ pc = "awaiting"
  /\ ~statusSet
  /\ status' = s
  /\ statusSet' = TRUE
  /\ UNCHANGED <<opts, thisArg, pc, nextResult, err, startTime, now, finished,
                 registered, alreadyFinished, cb, ctxLog, log, caller,
                 errorHandled, calls, levelArg>>
  /\ UNCHANGED timerVars
  /\ UNCHANGED concVars

\* the promise of next() is fulfilled
NextReturns ==
  /\ pc = "awaiting"
  /\ pc' = "settled"
  /\ nextResult' = [state |-> "returned", value |-> Undefined]
  /\ UNCHANGED <<opts, thisArg, err, startTime, now, status, statusSet, finished,
                 registered, alreadyFinished, cb, ctxLog, log, caller,
                 errorHandled, calls, levelArg>>
  /\ UNCHANGED timerVars
  /\ UNCHANGED concVars

\* the promise of next() is rejected with v
NextThrows(v) ==
  /\ pc = "awaiting"
  /\ pc' = "settled"
  /\ nextResult' = [state |-> "threw", value |-> v]
  /\ UNCHANGED <<opts, thisArg, err, startTime, now, status, statusSet, finished,
                 registered, alreadyFinished, cb, ctxLog, log, caller,
                 errorHandled, calls, levelArg>>
  /\ UNCHANGED timerVars
  /\ UNCHANGED concVars

\* ------------------------------------------------------------------------
\* requestLogger after await next(): catch, finally and the rethrow

\* catch (e) { err = e; }
Caught(r) == IF r.state = "threw" THEN r.value ELSE Undefined

\* if (err) { throw err; }: what the caller observes
Rethrow(e) ==
  IF Truthy(e)
  THEN [outcome |-> "rejected", value |-> e]
  ELSE [outcome |-> "resolved", value |-> Undefined]

AfterNext ==
  /\ pc = "settled"
  /\ err' = Caught(nextResult)
  /\ registered' = TRUE
  /\ alreadyFinished' = finished
  /\ caller' = Rethrow(err')
  /\ pc' = "done"
  /\ UNCHANGED <<opts, thisArg, nextResult, startTime, now, status, statusSet,
                 finished, cb, ctxLog, log, errorHandled, calls, levelArg>>
  /\ UNCHANGED timerVars
  /\ UNCHANGED concVars

\* The pipeline's default error handler answers a rejected middleware chain
\* with status 500 (test 'logs 500 errors'); it runs before any later event.
DefaultErrorHandler ==
  /\ caller.outcome = "rejected"
  /\ ~errorHandled
  /\ errorHandled' = TRUE
  /\ status' = 500
  /\ UNCHANGED <<opts, thisArg, pc, nextResult, err, startTime, now, statusSet,
                 finished, registered, alreadyFinished, cb, ctxLog, log, caller,
                 calls, levelArg>>
  /\ UNCHANGED timerVars
  /\ UNCHANGED concVars

\* ------------------------------------------------------------------------
\* The transport and the clock

\* the response is fully finished (or its connection is gone)
TransportFinish ==
  /\ ~finished
  /\ finished' = TRUE
  /\ UNCHANGED <<opts, thisArg, pc, nextResult, err, startTime, now, status,
                 statusSet, registered, alreadyFinished, cb, ctxLog, log,
                 caller, errorHandled, calls, levelArg>>
  /\ UNCHANGED timerVars
  /\ UNCHANGED concVars

Tick ==
  /\ now < MaxTime
  /\ now' = now + 1
  /\ UNCHANGED <<opts, thisArg, pc, nextResult, err, startTime, status,
                 statusSet, finished, registered, alreadyFinished, cb, ctxLog,
                 log, caller, errorHandled, calls, levelArg>>
  /\ UNCHANGED timerVars
  /\ UNCHANGED concVars

\* ------------------------------------------------------------------------
\* onResponseFinished, the callback given to onFinished

\* CallbackReady without waiting for the transport: the callback is called
\* as soon as it is registered
CallbackReady_NoFinish ==
  /\ registered
  /\ cb = "none"
  /\ caller.outcome = "rejected" => errorHandled

\* CallbackReady of a subscription that is not single-fire
CallbackReady_Repeats ==
  /\ registered
  /\ finished
  /\ cb \in {"none", "done"}
  /\ caller.outcome = "rejected" => errorHandled

\* onFinished calls the callback once, after it was registered and the
\* response has finished (at once from the finish event, or deferred when
\* the response had finished before), and after pending promise reactions
CallbackReady ==
  /\ registered
  /\ finished
  /\ cb = "none"
  /\ caller.outcome = "rejected" => errorHandled

\* ResponseBase carrying the request phase's map over instead of starting
\* from a fresh object
ResponseBase_Reuse(e, t, start) ==
  LET carried == IF \E i \in 1..Len(log) : log[i].kind = "request"
                 THEN log[CHOOSE i \in 1..Len(log) : log[i].kind = "request"].fields
                 ELSE EmptyMap
  IN  Put(Assign(carried,
                 IF Truthy(e)
                 THEN [req |-> "ctx.req", res |-> "ctx.res", err |-> e]
                 ELSE [req |-> "ctx.req", res |-> "ctx.res"]),
          durationField, t - start)

\* ResponseBase subtracting the wrong way round
ResponseBase_Swapped(e, t, start) ==
  Put(IF Truthy(e)
      THEN [req |-> "ctx.req", res |-> "ctx.res", err |-> e]
      ELSE [req |-> "ctx.req", res |-> "ctx.res"],
      durationField, start - t)

\* var responseData = { req, res }; if (err) responseData.err = err;
\* responseData[durationField] = new Date().getTime() - startTime
ResponseBase(e, t, start) ==
  Put(IF Truthy(e)
      THEN [req |-> "ctx.req", res |-> "ctx.res", err |-> e]
      ELSE [req |-> "ctx.req", res |-> "ctx.res"],
      durationField, t - start)

\* var level = levelFn(ctx, err)
Level(e, st) ==
  IF opts.levelFn = "default" THEN levelFn(st) ELSE customLevelFn(e)

\* LogAfterCallback clearing the reference on every path
LogAfterCallback_Always(exc) == "null"

\* ctx.log = null, the last statement of the callback: not reached when
\* the callback throws
LogAfterCallback(exc) == IF exc # Undefined THEN ctxLog ELSE "null"

ResponsePhase ==
  LET base == ResponseBase(err, now, startTime)
      u1 == updateFields("ctx", ctxLog, opts.updateLogFields, base, Undefined)
      c1 == Call("updateLogFields", opts.updateLogFields, base, Undefined, u1)
      u2 == updateFields("ctx", ctxLog, opts.updateResponseLogFields, u1.data, err)
      c2 == Call("updateResponseLogFields", opts.updateResponseLogFields, u1.data, err, u2)
  IN  IF u1.exc # Undefined
      THEN [exc |-> u1.exc, emitted |-> <<>>, calls |-> <<c1>>, levelArg |-> NotCalled]
      ELSE IF u2.exc # Undefined
      THEN [exc |-> u2.exc, emitted |-> u1.emitted, calls |-> <<c1, c2>>,
            levelArg |-> NotCalled]
      ELSE IF opts.levelFn = "throws" \/ opts.formatResponseMessage = "throws"
      THEN [exc |-> HookError, emitted |-> u1.emitted \o u2.emitted,
            calls |-> <<c1, c2>>, levelArg |-> err]
      ELSE [exc |-> Undefined,
            emitted |-> u1.emitted \o u2.emitted \o
                        <<[kind |-> "response", level |-> Level(err, status),
                           fields |-> u2.data,
                           msg |-> formatResponseMessage(status, u2.data)]>>,
            calls |-> <<c1, c2>>, levelArg |-> err]

onResponseFinished ==
  /\ CallbackReady
  /\ LET r == ResponsePhase IN
       /\ log' = log \o r.emitted
       /\ calls' = calls \o r.calls
       /\ levelArg' = r.levelArg
       /\ cb' = IF r.exc # Undefined THEN "aborted" ELSE "done"
       /\ ctxLog' = LogAfterCallback(r.exc)
  /\ UNCHANGED <<opts, thisArg, pc, nextResult, err, startTime, now, status,
                 statusSet, finished, registered, alreadyFinished, caller,
                 errorHandled>>
  /\ UNCHANGED timerVars
  /\ UNCHANGED concVars

\* ------------------------------------------------------------------------
\* timeContext: ctx.time(label) and ctx.timeEnd(label)

\* the variables of requestLogger that the timer context leaves alone
requestVars ==
  <<opts, thisArg, pc, nextResult, err, startTime, now, status, statusSet,
    finished, registered, alreadyFinished, cb, ctxLog, caller, errorHandled,
    calls, levelArg>>

\* async function timeContext(ctx, next): runs inside next() of requestLogger
timeContext ==
  /\ pc = "awaiting"
  /\ ~timeCtx
  /\ timeCtx' = TRUE
  /\ startTimes' = EmptyMap
  /\ UNCHANGED <<timeOpts, timerCalls, log>>
  /\ UNCHANGED requestVars
  /\ UNCHANGED concVars

WarnRecord(text, label) ==
  [kind |-> "warn", level |-> "warn", fields |-> EmptyMap,
   msg |-> [fmt |-> text, args |-> <<label>>]]

\* function time(ctx, label): the object it leaves in startTimes, the
\* records it emits and the exception that leaves it, for the start-time
\* object map, ctx.log logger and clock reading t
TimeCall(map, logger, label, t) ==
  IF TruthyValue(Get(map, label))
  THEN \* ctx.log.warn(...)
       IF logger = "null"
       THEN [map |-> map, emitted |-> <<>>, exc |-> TypeError]
       ELSE [map |-> Put(map, label, Num(t)),
             emitted |-> <<WarnRecord("time() called for previously used label %s", label)>>,
             exc |-> Undefined]
  ELSE [map |-> Put(map, label, Num(t)), emitted |-> <<>>, exc |-> Undefined]

\* var fields = { label, duration, msg: label + ': ' + duration + 'ms' }
TimerFields(label, duration) ==
  [label |-> label, duration |-> duration,
   msg |-> [fmt |-> "%s: %sms", args |-> <<label, duration>>]]

\* function timeEnd(ctx, label), likewise.  The hook runs while the entry
\* is still in startTimes; a hook that calls this.time(label) gets time()'s
\* behaviour for that object, and a TypeError raised inside the hook is
\* caught by updateFields, whose ctx.log.error then raises it again when
\* ctx.log is null.
TimeEndCall(map, logger, label, t) ==
  IF ~TruthyValue(Get(map, label))
  THEN \* ctx.log.warn(...); return
       IF logger = "null"
       THEN [map |-> map, emitted |-> <<>>, exc |-> TypeError]
       ELSE [map |-> map,
             emitted |-> <<WarnRecord("timeEnd() called without time() for label %s", label)>>,
             exc |-> Undefined]
  ELSE LET fields == TimerFields(label, Minus(t, Get(map, label)))
           inner == IF timeOpts.hookCallsTime
                    THEN TimeCall(map, logger, label, t)
                    ELSE [map |-> map, emitted |-> <<>>, exc |-> Undefined]
           u == updateFields("ctx", logger, timeOpts.updateLogFields, fields, Undefined)
       IN  IF inner.exc # Undefined \/ u.exc # Undefined
           THEN [map |-> inner.map, emitted |-> <<>>, exc |-> TypeError]
           ELSE IF logger = "null"
           THEN \* ctx.log[logLevel](fields) on null
                [map |-> inner.map, emitted |-> inner.emitted \o u.emitted,
                 exc |-> TypeError]
           ELSE [map |-> Put(inner.map, label, Null),
                 emitted |-> inner.emitted \o u.emitted \o
                             <<[kind |-> "timer", level |-> logLevel, fields |-> u.data,
                                msg |-> Undefined]>>,
                 exc |-> Undefined]

\* one entry of timerCalls: the call, the clock, whether ctx.log was
\* attached, the start-time object before and after, the part of the log
\* the call wrote (positions lo+1..hi) and the exception that left it
TimerCall(op, label, r) ==
  [op |-> op, label |-> label, at |-> now, attached |-> ctxLog # "null",
   before |-> startTimes, after |-> r.map,
   lo |-> Len(log), hi |-> Len(log) + Len(r.emitted), exc |-> r.exc]

\* a handler, or work it started, calls ctx.time(label)
time(label) ==
  /\ timeCtx
  /\ Len(timerCalls) < MaxTimerCalls
  /\ LET r == TimeCall(startTimes, ctxLog, label, now) IN
       /\ startTimes' = r.map
       /\ log' = log \o r.emitted
       /\ timerCalls' = Append(timerCalls, TimerCall("time", label, r))
  /\ UNCHANGED <<timeOpts, timeCtx>>
  /\ UNCHANGED requestVars
  /\ UNCHANGED concVars

\* a handler, or work it started, calls ctx.timeEnd(label)
timeEnd(label) ==
  /\ timeCtx
  /\ Len(timerCalls) < MaxTimerCalls
  /\ LET r == TimeEndCall(startTimes, ctxLog, label, now) IN
       /\ startTimes' = r.map
       /\ log' = log \o r.emitted
       /\ timerCalls' = Append(timerCalls, TimerCall("timeEnd", label, r))
  /\ UNCHANGED <<timeOpts, timeCtx>>
  /\ UNCHANGED requestVars
  /\ UNCHANGED concVars

\* ------------------------------------------------------------------------

Next ==
  \/ requestLogger
  \/ \E s \in Statuses : SetStatus(s)
  \/ NextReturns
  \/ \E v \in ThrownValues : NextThrows(v)
  \/ AfterNext
  \/ DefaultErrorHandler
  \/ TransportFinish
  \/ Tick
  \/ onResponseFinished

Spec == Init /\ [][Next]_vars

\* ------------------------------------------------------------------------
\* The timer context within a request: requestLogger with its default
\* options around a handler chain that uses ctx.time and ctx.timeEnd

DefaultOptions ==
  [updateLogFields |-> NoHook,
   updateRequestLogFields |-> NoHook,
   updateResponseLogFields |-> NoHook,
   levelFn |-> "default",
   formatRequestMessage |-> "default",
   formatResponseMessage |-> "default"]

InitTimers ==
  /\ opts = DefaultOptions
  /\ thisArg = Undefined
  /\ pc = "init"
  /\ nextResult = [state |-> "pending", value |-> Undefined]
  /\ err = Undefined
  /\ startTime = 0
  /\ now = 0
  /\ status = 404
  /\ statusSet = FALSE
  /\ finished = FALSE
  /\ registered = FALSE
  /\ alreadyFinished = FALSE
  /\ cb = "none"
  /\ ctxLog = "logger"
  /\ log = <<>>
  /\ caller = [outcome |-> "pending", value |-> Undefined]
  /\ errorHandled = FALSE
  /\ calls = <<>>
  /\ levelArg = NotCalled
  /\ timeOpts \in TimeOptions
  /\ timeCtx = FALSE
  /\ startTimes = EmptyMap
  /\ timerCalls = <<>>
  /\ reqs = <<>>
  /\ stream = <<>>

NextTimers ==
  \/ requestLogger
  \/ timeContext
  \/ \E l \in Labels : time(l)
  \/ \E l \in Labels : timeEnd(l)
  \/ NextReturns
  \/ AfterNext
  \/ TransportFinish
  \/ Tick
  \/ onResponseFinished

SpecTimers == InitTimers /\ [][NextTimers]_vars

\* ------------------------------------------------------------------------
\* Requests handled side by side.  One middleware function, created once
\* with its default options, is invoked once per request; every invocation
\* has its own ctx and its own var startTime and var err, and ctx carries
\* its own log reference and start-time object.  The clock and the output
\* stream are shared.

NumRequests == 2
Requests == 1..NumRequests

\* the timer calls one request makes, and the labels it passes
MaxRequestTimerCalls == 2
RequestLabels == {"foo"}

\* what the handler chains of these requests throw: an Error, and the
\* falsy value of `throw 0`
RequestThrown == {"Error1", "Zero"}

\* the state of one request before the pipeline invokes requestLogger
NewRequest ==
  [pc |-> "init",
   nextResult |-> [state |-> "pending", value |-> Undefined],
   err |-> Undefined,
   startTime |-> 0,
   status |-> 404,
   finished |-> FALSE,
   registered |-> FALSE,
   cb |-> "none",
   ctxLog |-> "logger",
   caller |-> [outcome |-> "pending", value |-> Undefined],
   errorHandled |-> FALSE,
   timeCtx |-> FALSE,
   startTimes |-> EmptyMap,
   timerCalls |-> 0]

InitConcurrent ==
  /\ opts = DefaultOptions
  /\ thisArg = Undefined
  /\ pc = "init"
  /\ nextResult = [state |-> "pending", value |-> Undefined]
  /\ err = Undefined
  /\ startTime = 0
  /\ now = 0
  /\ status = 404
  /\ statusSet = FALSE
  /\ finished = FALSE
  /\ registered = FALSE
  /\ alreadyFinished = FALSE
  /\ cb = "none"
  /\ ctxLog = "logger"
  /\ log = <<>>
  /\ caller = [outcome |-> "pending", value |-> Undefined]
  /\ errorHandled = FALSE
  /\ calls = <<>>
  /\ levelArg = NotCalled
  /\ timeOpts = DefaultTimeOptions
  /\ timeCtx = FALSE
  /\ startTimes = EmptyMap
  /\ timerCalls = <<>>
  /\ reqs = [i \in Requests |-> NewRequest]
  /\ stream = <<>>

\* the variables of the single-request view, which stay as they are
singleVars ==
  <<opts, thisArg, pc, nextResult, err, startTime, status, statusSet, finished,
    registered, alreadyFinished, cb, ctxLog, log, caller, errorHandled, calls,
    levelArg, timeOpts, timeCtx, startTimes, timerCalls>>

\* the records emitted through the ctx.log of request i reach the stream
Written(i, emitted) ==
  [k \in 1..Len(emitted) |-> [ctx |-> i, at |-> now, record |-> emitted[k]]]

\* requestLogger(ctx, next) for request i, up to await next(); ctx.log is
\* the logger the logger middleware has just attached
requestLoggerOf(i) ==
  /\ reqs[i].pc = "init"
  /\ LET r == RequestPhase IN
       /\ stream' = stream \o Written(i, r.emitted)
       /\ reqs' = [reqs EXCEPT ![i] =
                     IF r.exc # Undefined
                     THEN [@ EXCEPT !.pc = "done",
                                    !.caller = [outcome |-> "rejected", value |-> r.exc]]
                     ELSE [@ EXCEPT !.pc = "awaiting", !.startTime = now]]
  /\ UNCHANGED <<singleVars, now>>

\* timeContext(ctx, next) for request i
timeContextOf(i) ==
  /\ reqs[i].pc = "awaiting"
  /\ ~reqs[i].timeCtx
  /\ reqs' = [reqs EXCEPT ![i].timeCtx = TRUE, ![i].startTimes = EmptyMap]
  /\ UNCHANGED <<singleVars, now, stream>>

\* ctx.time(label) on the ctx of request i
timeOf(i, label) ==
  /\ reqs[i].timeCtx
  /\ reqs[i].timerCalls < MaxRequestTimerCalls
  /\ LET r == TimeCall(reqs[i].startTimes, reqs[i].ctxLog, label, now) IN
       /\ reqs' = [reqs EXCEPT ![i].startTimes = r.map, ![i].timerCalls = @ + 1]
       /\ stream' = stream \o Written(i, r.emitted)
  /\ UNCHANGED <<singleVars, now>>

\* ctx.timeEnd(label) on the ctx of request i
timeEndOf(i, label) ==
  /\ reqs[i].timeCtx
  /\ reqs[i].timerCalls < MaxRequestTimerCalls
  /\ LET r == TimeEndCall(reqs[i].startTimes, reqs[i].ctxLog, label, now) IN
       /\ reqs' = [reqs EXCEPT ![i].startTimes = r.map, ![i].timerCalls = @ + 1]
       /\ stream' = stream \o Written(i, r.emitted)
  /\ UNCHANGED <<singleVars, now>>

\* the promise of next() of request i is fulfilled
NextReturnsOf(i) ==
  /\ reqs[i].pc = "awaiting"
  /\ reqs' = [reqs EXCEPT ![i].pc = "settled",
                          ![i].nextResult = [state |-> "returned", value |-> Undefined]]
  /\ UNCHANGED <<singleVars, now, stream>>

\* the promise of next() of request i is rejected with v
NextThrowsOf(i, v) ==
  /\ reqs[i].pc = "awaiting"
  /\ reqs' = [reqs EXCEPT ![i].pc = "settled",
                          ![i].nextResult = [state |-> "threw", value |-> v]]
  /\ UNCHANGED <<singleVars, now, stream>>

\* catch, finally and the rethrow in the invocation for request i
AfterNextOf(i) ==
  /\ reqs[i].pc = "settled"
  /\ LET e == Caught(reqs[i].nextResult) IN
       reqs' = [reqs EXCEPT ![i].err = e,
                            ![i].registered = TRUE,
                            ![i].caller = Rethrow(e),
                            ![i].pc = "done"]
  /\ UNCHANGED <<singleVars, now, stream>>

\* the pipeline's default error handler for request i
DefaultErrorHandlerOf(i) ==
  /\ reqs[i].caller.outcome = "rejected"
  /\ ~reqs[i].errorHandled
  /\ reqs' = [reqs EXCEPT ![i].errorHandled = TRUE, ![i].status = 500]
  /\ UNCHANGED <<singleVars, now, stream>>

\* the response of request i is fully finished
TransportFinishOf(i) ==
  /\ ~reqs[i].finished
  /\ reqs' = [reqs EXCEPT ![i].finished = TRUE]
  /\ UNCHANGED <<singleVars, now, stream>>

\* the body of onResponseFinished for the invocation whose variables are
\* in r: the closure reads that invocation's err and startTime
ResponsePhaseOf(r) ==
  LET base == ResponseBase(r.err, now, r.startTime)
      u1 == updateFields("ctx", r.ctxLog, opts.updateLogFields, base, Undefined)
      u2 == updateFields("ctx", r.ctxLog, opts.updateResponseLogFields, u1.data, r.err)
  IN  IF u1.exc # Undefined
      THEN [exc |-> u1.exc, emitted |-> <<>>]
      ELSE IF u2.exc # Undefined
      THEN [exc |-> u2.exc, emitted |-> u1.emitted]
      ELSE IF opts.levelFn = "throws" \/ opts.formatResponseMessage = "throws"
      THEN [exc |-> HookError, emitted |-> u1.emitted \o u2.emitted]
      ELSE [exc |-> Undefined,
            emitted |-> u1.emitted \o u2.emitted \o
                        <<[kind |-> "response", level |-> Level(r.err, r.status),
                           fields |-> u2.data,
                           msg |-> formatResponseMessage(r.status, u2.data)]>>]

\* onFinished calls the callback of request i
onResponseFinishedOf(i) ==
  /\ reqs[i].registered
  /\ reqs[i].finished
  /\ reqs[i].cb = "none"
  /\ reqs[i].caller.outcome = "rejected" => reqs[i].errorHandled
  /\ LET r == ResponsePhaseOf(reqs[i]) IN
       /\ stream' = stream \o Written(i, r.emitted)
       /\ reqs' = [reqs EXCEPT ![i].cb = IF r.exc # Undefined THEN "aborted" ELSE "done",
                               ![i].ctxLog = IF r.exc # Undefined THEN @ ELSE "null"]
  /\ UNCHANGED <<singleVars, now>>

NextConcurrent ==
  \/ \E i \in Requests : requestLoggerOf(i)
  \/ \E i \in Requests : timeContextOf(i)
  \/ \E i \in Requests, l \in RequestLabels : timeOf(i, l)
  \/ \E i \in Requests, l \in RequestLabels : timeEndOf(i, l)
  \/ \E i \in Requests : NextReturnsOf(i)
  \/ \E i \in Requests, v \in RequestThrown : NextThrowsOf(i, v)
  \/ \E i \in Requests : AfterNextOf(i)
  \/ \E i \in Requests : DefaultErrorHandlerOf(i)
  \/ \E i \in Requests : TransportFinishOf(i)
  \/ \E i \in Requests : onResponseFinishedOf(i)
  \/ Tick

SpecConcurrent == InitConcurrent /\ [][NextConcurrent]_vars

\* ------------------------------------------------------------------------
\* Properties

\* the positions in log of the records of one kind
Records(kind) == {i \in 1..Len(log) : log[i].kind = kind}

\* the hooks, levelFn and the message formatters return normally
ReturnNormally ==
  /\ ~opts.updateLogFields.throws
  /\ ~opts.updateRequestLogFields.throws
  /\ ~opts.updateResponseLogFields.throws
  /\ opts.levelFn # "throws"
  /\ opts.formatRequestMessage # "throws"
  /\ opts.formatResponseMessage # "throws"

\* C1: a completion record is in the log only when the handler chain has
\* settled (returned or thrown) and the transport has signalled that the
\* response is finished, in whichever order the two happened.
C1_CompletionAfterSettleAndFinish ==
  Records("response") # {} =>
    /\ nextResult.state \in {"returned", "threw"}
    /\ finished
    /\ registered

\* C1 witness: the completion record of a request whose response finished
\* before its handler chain threw.
C1_Witness ==
  /\ Records("response") # {}
  /\ alreadyFinished
  /\ nextResult.state = "threw"

\* C2 as stated: when hooks, levelFn and formatters return normally, then
\* once the transport-finish signal has fired for a request that
\* requestLogger has started to handle there is exactly one start record
\* and exactly one completion record, the start record first.
C2_Original ==
  (ReturnNormally /\ finished /\ pc # "init") =>
    /\ Cardinality(Records("request")) = 1
    /\ Cardinality(Records("response")) = 1
    /\ \A i \in Records("request") : \A j \in Records("response") : i < j

\* C2 amended: when hooks, levelFn and formatters return normally, there is
\* never more than one start record nor more than one completion record, a
\* completion record is always preceded by the start record, the start
\* record is there as soon as the handler chain has been invoked, and once
\* the completion callback has run (the finish signal has fired and the
\* handler chain has settled) there is exactly one of each.
C2_Amended ==
  ReturnNormally =>
    /\ Cardinality(Records("request")) <= 1
    /\ Cardinality(Records("response")) <= 1
    /\ \A j \in Records("response") : \E i \in Records("request") : i < j
    /\ pc # "init" => Cardinality(Records("request")) = 1
    /\ cb # "none" =>
         /\ Cardinality(Records("request")) = 1
         /\ Cardinality(Records("response")) = 1

\* C2 witness: the callback has run for a request with normally returning
\* hooks and the log holds the start record and then the completion record.
C2_Witness ==
  /\ ReturnNormally
  /\ opts.updateLogFields.present
  /\ cb = "done"
  /\ Len(log) = 2
  /\ log[1].kind = "request"
  /\ log[2].kind = "response"

\* C3: whatever value the handler chain throws, requestLogger rethrows that
\* same value to its caller.
C3_RethrowsEveryThrown ==
  (pc = "done" /\ nextResult.state = "threw") =>
    caller = [outcome |-> "rejected", value |-> nextResult.value]

\* the invocations of updateFields made by onResponseFinished: the request
\* phase made the first two
ResponseCalls == SubSeq(calls, 3, Len(calls))

\* C4: when the handler chain throws, the map onResponseFinished builds
\* has err set to the thrown value, which is also the err argument of the
\* response-specific hook and of levelFn; when it does not throw, the map
\* has no err field.
C4_ErrFieldIsThrown ==
  (cb # "none") =>
    LET base == ResponseCalls[1].data IN
    IF nextResult.state = "threw"
    THEN /\ Has(base, "err")
         /\ base["err"] = nextResult.value
         /\ \A i \in 1..Len(ResponseCalls) :
              (ResponseCalls[i].hook = "updateResponseLogFields" /\ ResponseCalls[i].func.present)
                => (ResponseCalls[i].nargs = 2 /\ ResponseCalls[i].err = nextResult.value)
         /\ levelArg # NotCalled => levelArg = nextResult.value
    ELSE ~Has(base, "err")

\* the number of hooks of a phase that throw
Throwing(h1, h2) == (IF h1.throws THEN 1 ELSE 0) + (IF h2.throws THEN 1 ELSE 0)

\* the error-level records between positions a and b of the log
ErrorsBetween(a, b) == {k \in Records("hookError") : a < k /\ k < b}

\* C5: a hook that throws in the request phase or in the response phase
\* does not make requestLogger fail: the record of that phase is still
\* emitted, preceded by one error-level record per throwing hook.
C5_HookErrorsIsolated ==
  /\ (pc # "init" /\ opts.formatRequestMessage = "default"
        /\ Throwing(opts.updateLogFields, opts.updateRequestLogFields) > 0) =>
       /\ caller.outcome = "rejected" => caller.value \in ThrownValues
       /\ \E i \in Records("request") :
            Cardinality(ErrorsBetween(0, i)) =
              Throwing(opts.updateLogFields, opts.updateRequestLogFields)
  /\ (cb # "none" /\ opts.formatResponseMessage = "default" /\ opts.levelFn # "throws"
        /\ Throwing(opts.updateLogFields, opts.updateResponseLogFields) > 0) =>
       \E i \in Records("request") : \E j \in Records("response") :
         Cardinality(ErrorsBetween(i, j)) =
           Throwing(opts.updateLogFields, opts.updateResponseLogFields)

InPlace(h) == ~h.throws /\ h.ret # "object"

\* the fields a hook assigns when it is called during this request's
\* response phase
ResponseSets(h) ==
  (DOMAIN h.sets) \cup (IF Truthy(err) THEN DOMAIN h.setsOnErr ELSE {})

\* the fields of the fresh map of onResponseFinished
ResponseBaseFields ==
  {"req", "res", durationField} \cup (IF Truthy(err) THEN {"err"} ELSE {})

\* C7: with hooks that mutate in place, a field set by the global hook is
\* in the request record and in the completion record unless that phase's
\* specific hook deletes it, a field set only by the request-specific hook
\* is not in the completion record, and what the response-specific hook
\* adds or deletes leaves the request record as the request phase made it.
C7_HookComposition ==
  LET g == opts.updateLogFields
      rq == opts.updateRequestLogFields
      rs == opts.updateResponseLogFields
  IN  (InPlace(g) /\ InPlace(rq) /\ InPlace(rs)) =>
        /\ \A i \in Records("request") :
             /\ \A f \in DOMAIN g.sets : f \notin rq.dels => Has(log[i].fields, f)
             /\ \A f \in (DOMAIN rs.sets) \cup (DOMAIN rs.setsOnErr) :
                  f \notin {"req"} \cup (DOMAIN g.sets) \cup (DOMAIN rq.sets)
                    => ~Has(log[i].fields, f)
             /\ \A f \in rs.dels :
                  (f \in {"req"} \cup (DOMAIN g.sets) \cup (DOMAIN rq.sets) /\ f \notin rq.dels)
                    => Has(log[i].fields, f)
        /\ \A j \in Records("response") :
             /\ \A f \in DOMAIN g.sets : f \notin rs.dels => Has(log[j].fields, f)
             /\ \A f \in DOMAIN rq.sets :
                  f \notin ResponseBaseFields \cup (DOMAIN g.sets) \cup ResponseSets(rs)
                    => ~Has(log[j].fields, f)

\* C7 witness: both records of a request handled with the three hooks of
\* the test 'allows adding fields to request/response log data'.
C7_Witness ==
  /\ opts.updateLogFields = GlobalHook
  /\ opts.updateRequestLogFields = RequestHook
  /\ opts.updateResponseLogFields = ResponseHook
  /\ nextResult.state = "threw"
  /\ Records("request") # {}
  /\ Records("response") # {}

\* the fields updateRequestLogFields deletes, once it has been called
DeletedByRequestHook ==
  IF \E i \in 1..Len(calls) : calls[i].hook = "updateRequestLogFields" /\ calls[i].nargs > 0
  THEN opts.updateRequestLogFields.dels
  ELSE {}

\* C8 as stated: no field that the request-specific hook deletes is in the
\* completion record of the same request.
C8_Original ==
  \A j \in Records("response") :
    \A f \in DeletedByRequestHook : ~Has(log[j].fields, f)

\* the fields the response phase leaves in its map, from the fresh map and
\* the two response-phase hooks alone
ResponsePhaseFields ==
  LET g == opts.updateLogFields
      rs == opts.updateResponseLogFields
      afterGlobal ==
        IF ~g.present THEN ResponseBaseFields
        ELSE IF g.ret = "object" /\ ~g.throws THEN DOMAIN g.retObj
        ELSE (ResponseBaseFields \cup (DOMAIN g.sets)) \ g.dels
  IN  IF ~rs.present THEN afterGlobal
      ELSE IF rs.ret = "object" /\ ~rs.throws THEN DOMAIN rs.retObj
      ELSE (afterGlobal \cup ResponseSets(rs)) \ rs.dels

\* C8 amended: a field that the request-specific hook deletes is not in the
\* request record, and the deletion does not carry over: the completion
\* record is built from a fresh map and holds such a field exactly when
\* the fresh map, the global hook or the response-specific hook put it
\* there and no response-phase hook deleted it.
C8_Amended ==
  \A f \in DeletedByRequestHook :
    /\ \A i \in Records("request") : ~Has(log[i].fields, f)
    /\ \A j \in Records("response") : Has(log[j].fields, f) <=> f \in ResponsePhaseFields

\* C8 witness: a completion record holding baz1, which the global hook set
\* in both phases and the request-specific hook deleted from the request
\* record.
C8_Witness ==
  /\ "baz1" \in DeletedByRequestHook
  /\ \E i \in Records("request") : ~Has(log[i].fields, "baz1")
  /\ \E j \in Records("response") : Has(log[j].fields, "baz1")

\* C9: the completion record has the severity levelFn(ctx, err) returns
\* when the callback runs; the default levelFn gives error for a status
\* >= 500, warn for 400..499 and info otherwise; and when the handler chain
\* throws and no handler has set the status, the severity is error.
C9_Severity ==
  \A j \in Records("response") :
    /\ opts.levelFn = "custom" =>
         log[j].level = (IF err \in {"Error1", "Error2"} THEN "fatal" ELSE "debug")
    /\ opts.levelFn = "default" =>
         /\ status >= 500 => log[j].level = "error"
         /\ (status >= 400 /\ status < 500) => log[j].level = "warn"
         /\ status < 400 => log[j].level = "info"
         /\ (nextResult.state = "threw" /\ ~statusSet) => log[j].level = "error"

\* C10: ctx.log is null only if the completion record has been emitted,
\* and it is null once the completion callback has run to its end.
C10_LoggerCleared ==
  /\ ctxLog = "null" => Records("response") # {}
  /\ cb = "done" => ctxLog = "null"
  /\ Records("response") # {} => ctxLog = "null"

\* C10 witness: the callback has emitted the completion record and the
\* logger reference is cleared.
C10_Witness ==
  /\ cb = "done"
  /\ Records("response") # {}
  /\ ctxLog = "null"

C17_ThrowingHookLeavesData ==
  \A i \in 1..Len(calls) :
    (calls[i].func.present /\ calls[i].func.throws /\ calls[i].exc = Undefined)
      => calls[i].result = calls[i].data

\* ------------------------------------------------------------------------
\* Properties of the timer context

\* the records call c wrote to the log
Segment(c) == SubSeq(log, c.lo + 1, c.hi)

\* the records of one kind among them
OfKind(c, kind) == {k \in (c.lo + 1)..c.hi : log[k].kind = kind}

\* the calls time(l) made before call i that no timeEnd(l) has followed
\* before call i
OpenStarts(i, l) ==
  {j \in 1..(i - 1) :
     /\ timerCalls[j].op = "time"
     /\ timerCalls[j].label = l
     /\ \A k \in (j + 1)..(i - 1) :
          ~(timerCalls[k].op = "timeEnd" /\ timerCalls[k].label = l)}

\* before call i an entry for l is open: time(l) was called and no
\* timeEnd(l) has closed it since
OpenBefore(i, l) == OpenStarts(i, l) # {}

\* the clock reading of the most recent time(l) before call i
LastStart(i, l) ==
  timerCalls[CHOOSE j \in OpenStarts(i, l) : \A k \in OpenStarts(i, l) : k <= j].at

\* the level timeContext was configured with
ConfiguredLevel == IF timeOpts.logLevel = Undefined THEN "trace" ELSE timeOpts.logLevel

\* C12: with the logger attached, timeEnd(label) on an open entry emits
\* exactly one record at the configured level, with the fields {label,
\* duration, msg} passed through the hook and duration = now minus the
\* start of the most recent time(label), not negative; afterwards no entry
\* is open: a following timeEnd(label) warns, a following time(label) does
\* not.
C12_TimeEndOnOpenEntry ==
  \A i \in 1..Len(timerCalls) :
    LET c == timerCalls[i] IN
    (c.op = "timeEnd" /\ c.attached /\ OpenBefore(i, c.label)) =>
      /\ c.exc = Undefined
      /\ Cardinality(OfKind(c, "timer")) = 1
      /\ ~timeOpts.hookCallsTime => Cardinality(OfKind(c, "warn")) = 0
      /\ c.at - LastStart(i, c.label) >= 0
      /\ \A k \in OfKind(c, "timer") :
           /\ log[k].level = ConfiguredLevel
           /\ log[k].fields =
                updateFields("ctx", "logger", timeOpts.updateLogFields,
                             TimerFields(c.label, Num(c.at - LastStart(i, c.label))),
                             Undefined).data
      /\ ~TruthyValue(Get(c.after, c.label))
      /\ (i < Len(timerCalls) /\ timerCalls[i + 1].label = c.label
            /\ timerCalls[i + 1].attached) =>
           IF timerCalls[i + 1].op = "timeEnd"
           THEN /\ Cardinality(OfKind(timerCalls[i + 1], "warn")) = 1
                /\ timerCalls[i + 1].hi = timerCalls[i + 1].lo + 1
           ELSE timerCalls[i + 1].hi = timerCalls[i + 1].lo

\* C13: with the logger attached, time(label) emits one warn-level record
\* exactly when an unfinished entry for label exists and nothing
\* otherwise, sets the entry's start time to now and does not throw.
C13_TimeWarnsIffOpen ==
  \A i \in 1..Len(timerCalls) :
    LET c == timerCalls[i] IN
    (c.op = "time" /\ c.attached) =>
      /\ c.exc = Undefined
      /\ c.hi - c.lo = (IF OpenBefore(i, c.label) THEN 1 ELSE 0)
      /\ \A k \in (c.lo + 1)..c.hi : log[k].level = "warn"
      /\ Get(c.after, c.label) = Num(c.at)

\* C14: with the logger attached, timeEnd(label) with no open entry for
\* label, whatever the label, emits exactly one warn-level record and no
\* duration record, leaves the timer map unchanged and does not throw.
C14_TimeEndWithoutTime ==
  \A i \in 1..Len(timerCalls) :
    LET c == timerCalls[i] IN
    (c.op = "timeEnd" /\ c.attached /\ ~OpenBefore(i, c.label)) =>
      /\ c.exc = Undefined
      /\ c.hi = c.lo + 1
      /\ Cardinality(OfKind(c, "warn")) = 1
      /\ Cardinality(OfKind(c, "timer")) = 0
      /\ c.after = c.before

\* C15: timers with different labels are independent: a call for one
\* label leaves the entry of every other label as it was and emits no
\* warning about another label, and every timeEnd on an open label emits
\* exactly one duration record, for its own label, so that the duration
\* records follow the order of the timeEnd calls.
C15_LabelsIndependent ==
  \A i \in 1..Len(timerCalls) :
    LET c == timerCalls[i] IN
    c.attached =>
      /\ \A b \in Labels \ {c.label} : Get(c.after, b) = Get(c.before, b)
      /\ \A k \in OfKind(c, "warn") : log[k].msg.args = <<c.label>>
      /\ (c.op = "timeEnd" /\ OpenBefore(i, c.label)) =>
           /\ Cardinality(OfKind(c, "timer")) = 1
           /\ \A k \in OfKind(c, "timer") :
                Has(log[k].fields, "label") => log[k].fields["label"] = c.label

\* C16: no call of time or timeEnd throws, whenever it is made, also after
\* the completion callback has cleared the logger reference.
C16_TimersNeverThrow ==
  \A i \in 1..Len(timerCalls) : timerCalls[i].exc = Undefined

\* C18: in timeEnd(label) on an open entry the entry is deleted before the
\* hook runs and before the record is emitted: a time(label) call made by
\* the hook emits no warning and the entry it opens is open after timeEnd
\* returns, and the entry is closed even when the emission fails.
C18_EntryDeletedFirst ==
  \A i \in 1..Len(timerCalls) :
    LET c == timerCalls[i] IN
    (c.op = "timeEnd" /\ OpenBefore(i, c.label) /\ TruthyValue(Get(c.before, c.label))) =>
      /\ (timeOpts.hookCallsTime /\ c.attached) =>
           /\ OfKind(c, "warn") = {}
           /\ TruthyValue(Get(c.after, c.label))
      /\ c.exc # Undefined => ~TruthyValue(Get(c.after, c.label))

\* C19: an entry opened by time(label) is open whatever its timestamp, 0
\* included: a following time(label) warns, and a following timeEnd(label)
\* emits a duration record and not the 'called without time()' warning.
C19_OpenWhateverTimestamp ==
  \A i \in 1..Len(timerCalls) :
    LET c == timerCalls[i] IN
    (c.attached /\ ~timeOpts.hookCallsTime /\ OpenBefore(i, c.label)
       /\ LastStart(i, c.label) \in 0..MaxTime) =>
      IF c.op = "time"
      THEN Cardinality(OfKind(c, "warn")) = 1
      ELSE /\ OfKind(c, "timer") # {}
           /\ OfKind(c, "warn") = {}

\* ------------------------------------------------------------------------
\* Requests handled side by side

\* the positions in the stream of the records of a kind request i wrote
RecordsOf(i, kind) ==
  {k \in 1..Len(stream) : stream[k].ctx = i /\ stream[k].record.kind = kind}

\* every completion record carries the err its own request's handler chain
\* threw, and none if that chain threw nothing; its duration is the time
\* from its own request's start record to the completion record
OwnErrAndDuration ==
  \A i \in Requests : \A k \in RecordsOf(i, "response") :
    LET f == stream[k].record.fields IN
      /\ reqs[i].nextResult.state = "threw" =>
           Has(f, "err") /\ f["err"] = reqs[i].nextResult.value
      /\ reqs[i].nextResult.state # "threw" => ~Has(f, "err")
      /\ Has(f, durationField)
      /\ \E s \in RecordsOf(i, "request") :
           f[durationField] = stream[k].at - stream[s].at

\* a time or timeEnd call on one request's ctx leaves every other request
\* as it is and acts on its own start-time object only
TimerCallsStayOnOwnContext ==
  \A i \in Requests : \A l \in RequestLabels :
    /\ timeOf(i, l) =>
         /\ \A j \in Requests \ {i} : reqs'[j] = reqs[j]
         /\ reqs'[i].startTimes =
              TimeCall(reqs[i].startTimes, reqs[i].ctxLog, l, now).map
    /\ timeEndOf(i, l) =>
         /\ \A j \in Requests \ {i} : reqs'[j] = reqs[j]
         /\ reqs'[i].startTimes =
              TimeEndCall(reqs[i].startTimes, reqs[i].ctxLog, l, now).map

\* C20: for every interleaving of the requests handled side by side, each
\* request's completion record carries the err captured from its own
\* handler chain and a duration computed from its own start timestamp, and
\* time/timeEnd calls on one request's context neither read nor change the
\* timer map of another request.
C20_PerRequestState ==
  []OwnErrAndDuration /\ [][TimerCallsStayOnOwnContext]_vars


====
